---- MODULE Spec2Model ----
(***************************************************************************)
(* Model of gangplank's stage executor and shorthand planner (spec         *)
(* package: Stage.Execute, getCommands, cosaBuildCmd, addShorthandToStage, *)
(* JobSpec.GenerateStages, Stage.DeepCopy) and of its worker-pod runners   *)
(* (ocp package: clusterRunner, podmanRunner).                             *)
(*                                                                         *)
(* Spec         one invocation of Stage.Execute, from the argument checks  *)
(*              to the last deferred call, with the goroutines of the      *)
(*              concurrent branch interleaved step by step.                *)
(* PlanSpec     calls of JobSpec.GenerateStages on one job spec, one       *)
(*              addShorthandToStage fold per step.                         *)
(* ClusterSpec  one invocation of clusterRunner with the watch events,     *)
(*              signals, cancellation and passing time around its loop.    *)
(* PodmanSpec   one invocation of podmanRunner with its signal goroutine.  *)
(* CopySpec     Stage.DeepCopy on a heap of backing arrays, followed by    *)
(*              writes to the slices of the original and of the copy.      *)
(* StreamSpec   one call of streamPodLogs and the goroutine it starts,      *)
(*              scheduled fairly, with the pod writing to the stream.      *)
(* LiveSpec     Stage.Execute on user commands under weak fairness.        *)
(***************************************************************************)
EXTENDS Integers, Sequences, FiniteSets, TLC

\* ------------------------------------------------------------------ bounds
\* longest Stage.Commands list tried by Execute
MaxCommands == 2
\* total number of shorthands folded in one planner run
MaxShorthands == 3

VARIABLES
  \* ---- Stage.Execute: arguments
  ctxNil,        \* ctx == nil
  rdNil,         \* rd == nil
  stage,         \* the receiver: BuildArtifacts, Commands, PostAlways, ConcurrentExecution
  jsDelayed,     \* rd.JobSpec.DelayedMetaMerge
  \* ---- Stage.Execute: locals and environment
  pc,            \* position of the calling goroutine inside Execute
  cmds,          \* cmds returned by getCommands
  tmpd,          \* scratch directory: "none", "exists", "removed"
  scripts,       \* map[int]string of written main scripts
  wi,            \* index of the script-writing loop
  visited,       \* keys already produced by the current range over scripts
  cur,           \* script the serial loop is executing
  deferPost,     \* the deferred post.sh call has been registered
  invoked,       \* script paths handed to rd.RendererExecuter, in call order
  running,       \* renderer invocations that have not returned yet
  result,        \* what each renderer invocation returned
  task,          \* goroutine of each main script in the concurrent branch
  errorsCh,      \* buffered channel errors
  wg,            \* sync.WaitGroup counter
  x,             \* counter of the draining loop
  e,             \* error kept by the draining loop
  ret,           \* value returned by Execute
  ctxCancelled,  \* ctx has been cancelled by the caller
  \* ---- planner
  ppc,           \* position of GenerateStages
  j,             \* the JobSpec: Stages, DelayedMetaMerge, StrictMode
  fromNames,     \* groups consumed so far by the running GenerateStages call
  group,         \* shorthands of the current group folded so far
  s,             \* the Stage being folded for the current group
  folds,         \* number of addShorthandToStage calls made in this run
  before,        \* j.Stages when the running GenerateStages call started
  \* ---- clusterRunner
  hasInit,       \* len(cp.ocpInitCommand) > 0: the pod has the init container
  cpc,           \* position of clusterRunner; after the return, the return taken
  cret,          \* value returned by clusterRunner
  cpPod,         \* cp.pod has been set
  podExists,     \* the worker pod exists in the cluster
  deletes,       \* number of Pods(ns).Delete calls issued
  watchStopped,  \* w.Stop() has run
  status,        \* status.Phase of the last pod seen
  timer,         \* minute at which the pending time.After was created
  clock,         \* minutes since clusterRunner entered its loop
  nEvents,       \* events received from w.ResultChan()
  sigs,          \* buffered channel sigs
  clusterCtxDone,\* ctx.Done() is closed
  logStarted,    \* map logStarted, with the value each pointer refers to
  streamers,     \* log goroutines started, per container name
  \* ---- podmanRunner
  persistent,    \* clusterCtx.podmanSrvDir != "": the caller supplied /srv
  qpc,           \* position of the goroutine running podmanRunner
  qret,          \* value returned by podmanRunner
  qerr,          \* value of the return statement whose defers are running
  dirs,          \* host directories: the caller's /srv and the ephemeral one
  container,     \* the worker container
  sName,         \* number of "-cleaner" suffixes appended to s.Name
  cleaners,      \* cleaner containers created so far
  enders,        \* calls of ender so far
  wpc,           \* position of the goroutine waiting for sigs and ctx.Done()
  podSigs,       \* buffered channel sigs of podmanRunner
  podCtxDone,    \* ctx.Done() of podmanRunner is closed
  \* ---- Stage.DeepCopy
  dpc,           \* "start" before the call of DeepCopy, "copied" after it
  orig,          \* the receiver *s: scalars and slice headers
  ns,            \* the Stage returned by DeepCopy
  heap,          \* backing arrays of the slices, by address
  mutated,       \* which of the two Stages has been written to since the copy
  \* ---- streamPodLogs
  lpc,           \* position of the caller of streamPodLogs
  lret,          \* value returned by streamPodLogs
  logging,       \* the argument logging: "nil", or the bool it points to, as text
  gpc,           \* position of the goroutine started at line 407
  podLogs,       \* the stream req.Stream() returned: "none", "open", "eof", "broken"
  unread,        \* lines of the stream not read yet
  printed,       \* lines the goroutine has printed
  logged,        \* lines the goroutine has written to logf
  closed         \* podLogs.Close() has run

execVars == <<ctxNil, rdNil, stage, jsDelayed, pc, cmds, tmpd, scripts, wi, visited,
              cur, deferPost, invoked, running, result, task, errorsCh, wg, x, e,
              ret, ctxCancelled>>
planVars == <<ppc, j, fromNames, group, s, folds, before>>
clusterVars == <<hasInit, cpc, cret, cpPod, podExists, deletes, watchStopped, status,
                 timer, clock, nEvents, sigs, clusterCtxDone, logStarted, streamers>>
podmanVars == <<persistent, qpc, qret, qerr, dirs, container, sName, cleaners, enders,
                wpc, podSigs, podCtxDone>>
copyVars == <<dpc, orig, ns, heap, mutated>>
streamVars == <<lpc, lret, logging, gpc, podLogs, unread, printed, logged, closed>>
besideExec == <<planVars, clusterVars, podmanVars, copyVars, streamVars>>
besidePlan == <<execVars, clusterVars, podmanVars, copyVars, streamVars>>
besideCluster == <<execVars, planVars, podmanVars, copyVars, streamVars>>
besidePodman == <<execVars, planVars, clusterVars, copyVars, streamVars>>
besideCopy == <<execVars, planVars, clusterVars, podmanVars, streamVars>>
besideStream == <<execVars, planVars, clusterVars, podmanVars, copyVars>>
vars == <<execVars, planVars, clusterVars, podmanVars, copyVars, streamVars>>

\* ---------------------------------------------------------------- helpers
Range(f) == {f[i] : i \in DOMAIN f}

Count(seq, v) == Cardinality({i \in DOMAIN seq : seq[i] = v})

\* the artifact catalogue: names for which cosa.CanArtifact answers true
Catalogue == {"aws", "qemu", "metal", "metal4k", "live-iso", "ostree"}

CanArtifact(b) == b \in Catalogue

\* strings.ToLower on the names used here
ToLower(b) ==
  CASE b = "Base" -> "base"
    [] b = "Finalize" -> "finalize"
    [] OTHER -> b

defaultBaseCommand == "cosa fetch; cosa build;"
defaultBaseDelayMergeCommand == "cosa fetch; cosa build --delay-meta-merge;"
defaultFinalizeCommand == "cosa meta --finalize;"

\* fmt.Sprintf("cosa buildextend-%s", b)
BuildExtend(b) ==
  CASE b = "aws" -> "cosa buildextend-aws"
    [] b = "qemu" -> "cosa buildextend-qemu"
    [] b = "metal" -> "cosa buildextend-metal"
    [] b = "metal4k" -> "cosa buildextend-metal4k"
    [] b = "live-iso" -> "cosa buildextend-live-iso"
    [] b = "ostree" -> "cosa buildextend-ostree"
    [] OTHER -> "cosa buildextend-?"

\* cosaBuildCmd: [err, cmds]
cosaBuildCmd(b, delayed) ==
  CASE ToLower(b) = "base" ->
         [err |-> FALSE,
          cmds |-> IF delayed THEN <<defaultBaseDelayMergeCommand>>
                              ELSE <<defaultBaseCommand>>]
    [] ToLower(b) = "finalize" -> [err |-> FALSE, cmds |-> <<defaultFinalizeCommand>>]
    [] OTHER ->
         IF CanArtifact(b) THEN [err |-> FALSE, cmds |-> <<BuildExtend(b)>>]
                           ELSE [err |-> TRUE, cmds |-> <<>>]

\* strings.Join(cmds, "\n") for the one-element lists cosaBuildCmd returns
JoinLines(c) == IF Len(c) = 0 THEN "" ELSE c[1]

\* getCommands as it would be if the error of cosaBuildCmd were dropped
getCommandsIgnoringError(st, delayed) ==
  [err |-> FALSE,
   cmds |-> [i \in 1..Len(st.BuildArtifacts) |->
               JoinLines(cosaBuildCmd(st.BuildArtifacts[i], delayed).cmds)]
            \o st.Commands]

\* getCommands: [err, cmds]
getCommands(st, delayed) ==
  IF \E i \in DOMAIN st.BuildArtifacts : cosaBuildCmd(st.BuildArtifacts[i], delayed).err
  THEN [err |-> TRUE, cmds |-> <<>>]
  ELSE [err |-> FALSE,
        cmds |-> [i \in 1..Len(st.BuildArtifacts) |->
                    JoinLines(cosaBuildCmd(st.BuildArtifacts[i], delayed).cmds)]
                 \o st.Commands]

\* filepath.Join(tmpd, fmt.Sprintf("script-%d.sh", i))
ScriptNames == <<"script-0.sh", "script-1.sh", "script-2.sh", "script-3.sh",
                 "script-4.sh", "script-5.sh", "script-6.sh", "script-7.sh">>
ScriptName(i) == ScriptNames[i + 1]
prepScript == "prep.sh"
postScript == "post.sh"
MainScripts == Range(ScriptNames)
AllScripts == MainScripts \cup {prepScript, postScript}

\* values of the error type
NilErr == [kind |-> "nil", of |-> "", cause |-> ""]
Err(k, o, c) == [kind |-> k, of |-> o, cause |-> c]
Pending == [kind |-> "pending", of |-> "", cause |-> ""]

\* what rd.RendererExecuter may return: nil, an error of the script, or,
\* once ctx is cancelled, the cancellation error
RendererResults == {"ok", "err"} \cup (IF ctxCancelled THEN {"cancelled"} ELSE {})

\* ------------------------------------------------------------ Execute: Init
UserCommands == <<"true", "false", "sleep", "echo", "date", "id">>
BuildArtifactInputs == {<<>>, <<"Base">>, <<"finalize", "bogus">>}

ExecInit ==
  /\ ctxNil \in BOOLEAN
  /\ rdNil \in BOOLEAN
  /\ jsDelayed \in BOOLEAN
  /\ stage \in [BuildArtifacts : BuildArtifactInputs,
                Commands : {SubSeq(UserCommands, 1, m) : m \in 0..MaxCommands},
                PostAlways : BOOLEAN,
                ConcurrentExecution : BOOLEAN]
  /\ pc = "start"
  /\ cmds = <<>>
  /\ tmpd = "none"
  /\ scripts = <<>>
  /\ wi = 0
  /\ visited = {}
  /\ cur = ""
  /\ deferPost = FALSE
  /\ invoked = <<>>
  /\ running = {}
  /\ result = [sc \in AllScripts |-> "none"]
  /\ task = [sc \in MainScripts |-> "new"]
  /\ errorsCh = <<>>
  /\ wg = 0
  /\ x = 0
  /\ e = NilErr
  /\ ret = Pending
  /\ ctxCancelled = FALSE

PlanIdle ==
  /\ ppc = "idle"
  /\ j = [Stages |-> <<>>, DelayedMetaMerge |-> FALSE, StrictMode |-> FALSE]
  /\ fromNames = <<>>
  /\ group = <<>>
  /\ s = [ID |-> <<>>, Description |-> <<>>, ExecutionOrder |-> 0,
          BuildArtifacts |-> <<>>, RequireArtifacts |-> <<>>]
  /\ folds = 0
  /\ before = <<>>

Containers(init) == IF init THEN <<"init", "worker">> ELSE <<"worker">>

ClusterIdle ==
  /\ hasInit = FALSE
  /\ cpc = "start"
  /\ cret = "pending"
  /\ cpPod = FALSE
  /\ podExists = FALSE
  /\ deletes = 0
  /\ watchStopped = FALSE
  /\ status = ""
  /\ timer = 0
  /\ clock = 0
  /\ nEvents = 0
  /\ sigs = <<>>
  /\ clusterCtxDone = FALSE
  /\ logStarted = [c \in Range(Containers(TRUE)) |-> "unset"]
  /\ streamers = [c \in Range(Containers(TRUE)) |-> 0]

PodmanIdle ==
  /\ persistent = FALSE
  /\ qpc = "start"
  /\ qret = "pending"
  /\ qerr = "pending"
  /\ dirs = [caller |-> "absent", ephemeral |-> "absent"]
  /\ container = "none"
  /\ sName = 0
  /\ cleaners = 0
  /\ enders = 0
  /\ wpc = "none"
  /\ podSigs = <<>>
  /\ podCtxDone = FALSE

\* a nil slice
NilSlice == [ptr |-> 0, len |-> 0]

\* Stage{}
EmptyStage ==
  [ID |-> <<>>, Description |-> <<>>, ConcurrentExecution |-> FALSE,
   DirectExec |-> FALSE, NotBlocking |-> FALSE, RequireArtifacts |-> NilSlice,
   BuildArtifacts |-> NilSlice, Commands |-> NilSlice, PrepCommands |-> NilSlice,
   PostCommands |-> NilSlice, PostAlways |-> FALSE, ExecutionOrder |-> 0]

CopyIdle ==
  /\ dpc = "start"
  /\ orig = EmptyStage
  /\ ns = EmptyStage
  /\ heap = <<>>
  /\ mutated = {}

StreamIdle ==
  /\ lpc = "start"
  /\ lret = "pending"
  /\ logging = "false"
  /\ gpc = "none"
  /\ podLogs = "none"
  /\ unread = 0
  /\ printed = 0
  /\ logged = 0
  /\ closed = FALSE

Init == ExecInit /\ PlanIdle /\ ClusterIdle /\ PodmanIdle /\ CopyIdle /\ StreamIdle

\* --------------------------------------------------------- Execute: actions
\* Return as it would be if the deferred post.sh call were not registered
ReturnWithoutDeferredPost(r) ==
  /\ ret' = r
  /\ pc' = "deferRemove"

\* a return statement reached after the deferred calls were registered:
\* the deferred post.sh call (if registered) runs first, then os.RemoveAll
Return(r) ==
  /\ ret' = r
  /\ pc' = IF deferPost THEN "deferPost" ELSE "deferRemove"

\* rd.RendererExecuter(ctx, envVars, sc) is entered
Invoke(sc) ==
  /\ invoked' = Append(invoked, sc)
  /\ running' = running \cup {sc}

\* rd.RendererExecuter(ctx, envVars, sc) returns res
Returned(sc, res) ==
  /\ running' = running \ {sc}
  /\ result' = [result EXCEPT ![sc] = res]

\* the error value of a renderer result
ErrOf(sc, res) == IF res = "ok" THEN NilErr ELSE Err("script", sc, res)

\* argument checks, getCommands and the empty-list check
Validate ==
  /\ pc = "start"
  /\ LET gc == getCommands(stage, jsDelayed) IN
       IF ctxNil THEN
         ret' = Err("invalid", "", "context must not be nil") /\ pc' = "done" /\ cmds' = cmds
       ELSE IF rdNil THEN
         ret' = Err("invalid", "", "render data must not be nil") /\ pc' = "done" /\ cmds' = cmds
       ELSE IF gc.err THEN
         ret' = Err("invalid", "", "not a known buildable artifact") /\ pc' = "done" /\ cmds' = cmds
       ELSE IF Len(gc.cmds) = 0 THEN
         ret' = Err("invalid", "", "no commands to execute") /\ pc' = "done" /\ cmds' = cmds
       ELSE
         ret' = ret /\ pc' = "tempdir" /\ cmds' = gc.cmds
  /\ UNCHANGED <<ctxNil, rdNil, stage, jsDelayed, tmpd, scripts, wi, visited, cur,
                 deferPost, invoked, running, result, task, errorsCh, wg, x, e,
                 ctxCancelled>>
  /\ UNCHANGED besideExec

\* ioutil.TempDir and defer os.RemoveAll(tmpd)
TempDir ==
  /\ pc = "tempdir"
  /\ \E ok \in BOOLEAN :
       IF ok THEN tmpd' = "exists" /\ pc' = "writePrep" /\ ret' = ret
             ELSE tmpd' = tmpd /\ pc' = "done" /\ ret' = Err("io", "", "TempDir")
  /\ UNCHANGED <<ctxNil, rdNil, stage, jsDelayed, cmds, scripts, wi, visited, cur,
                 deferPost, invoked, running, result, task, errorsCh, wg, x, e,
                 ctxCancelled>>
  /\ UNCHANGED besideExec

\* ioutil.WriteFile(prepScript, ...)
WritePrep ==
  /\ pc = "writePrep"
  /\ \E ok \in BOOLEAN :
       IF ok THEN pc' = "prep" /\ ret' = ret
             ELSE Return(Err("io", prepScript, "WriteFile"))
  /\ UNCHANGED <<ctxNil, rdNil, stage, jsDelayed, cmds, tmpd, scripts, wi, visited, cur,
                 deferPost, invoked, running, result, task, errorsCh, wg, x, e,
                 ctxCancelled>>
  /\ UNCHANGED besideExec

\* rd.RendererExecuter(ctx, envVars, prepScript) is called
PrepStart ==
  /\ pc = "prep"
  /\ Invoke(prepScript)
  /\ pc' = "prepWait"
  /\ UNCHANGED <<ctxNil, rdNil, stage, jsDelayed, cmds, tmpd, scripts, wi, visited, cur,
                 deferPost, result, task, errorsCh, wg, x, e, ret, ctxCancelled>>
  /\ UNCHANGED besideExec

\* PrepEnd as it would be if the error of prep.sh were dropped
PrepEndIgnoringError ==
  /\ pc = "prepWait"
  /\ \E res \in RendererResults : Returned(prepScript, res)
  /\ pc' = "writePost"
  /\ UNCHANGED <<ctxNil, rdNil, stage, jsDelayed, cmds, tmpd, scripts, wi, visited, cur,
                 deferPost, invoked, task, errorsCh, wg, x, e, ret, ctxCancelled>>
  /\ UNCHANGED besideExec

\* ... and returns; an error is wrapped and returned
PrepEnd ==
  /\ pc = "prepWait"
  /\ \E res \in RendererResults :
       /\ Returned(prepScript, res)
       /\ IF res = "ok" THEN pc' = "writePost" /\ ret' = ret
                        ELSE Return(Err("prep", prepScript, res))
  /\ UNCHANGED <<ctxNil, rdNil, stage, jsDelayed, cmds, tmpd, scripts, wi, visited, cur,
                 deferPost, invoked, task, errorsCh, wg, x, e, ctxCancelled>>
  /\ UNCHANGED besideExec

\* ioutil.WriteFile(postScript, ...) and, if PostAlways, the defer of post.sh
WritePost ==
  /\ pc = "writePost"
  /\ \E ok \in BOOLEAN :
       IF ok THEN /\ deferPost' = stage.PostAlways
                  /\ pc' = "writeScripts"
                  /\ ret' = ret
             ELSE /\ deferPost' = deferPost
                  /\ Return(Err("io", postScript, "WriteFile"))
  /\ UNCHANGED <<ctxNil, rdNil, stage, jsDelayed, cmds, tmpd, scripts, wi, visited, cur,
                 invoked, running, result, task, errorsCh, wg, x, e, ctxCancelled>>
  /\ UNCHANGED besideExec

\* one iteration of the loop writing script-<i>.sh; a failed write returns nil
WriteScript ==
  /\ pc = "writeScripts"
  /\ wi < Len(cmds)
  /\ \E ok \in BOOLEAN :
       IF ok THEN /\ scripts' = scripts @@ (wi :> ScriptName(wi))
                  /\ wi' = wi + 1
                  /\ pc' = pc
                  /\ ret' = ret
             ELSE /\ scripts' = scripts
                  /\ wi' = wi
                  /\ Return(NilErr)
  /\ UNCHANGED <<ctxNil, rdNil, stage, jsDelayed, cmds, tmpd, visited, cur,
                 deferPost, invoked, running, result, task, errorsCh, wg, x, e,
                 ctxCancelled>>
  /\ UNCHANGED besideExec

\* the writing loop ends; branch on ConcurrentExecution
ScriptsWritten ==
  /\ pc = "writeScripts"
  /\ wi = Len(cmds)
  /\ pc' = IF stage.ConcurrentExecution THEN "launch" ELSE "serial"
  /\ visited' = {}
  /\ UNCHANGED <<ctxNil, rdNil, stage, jsDelayed, cmds, tmpd, scripts, wi, cur,
                 deferPost, invoked, running, result, task, errorsCh, wg, x, e, ret,
                 ctxCancelled>>
  /\ UNCHANGED besideExec

\* serial branch: the range over the map scripts yields its next key (in an
\* order the language does not specify) and the renderer is called on it
SerialStart ==
  /\ pc = "serial"
  /\ \E k \in DOMAIN scripts \ visited :
       /\ visited' = visited \cup {k}
       /\ cur' = scripts[k]
       /\ Invoke(scripts[k])
  /\ pc' = "serialWait"
  /\ UNCHANGED <<ctxNil, rdNil, stage, jsDelayed, cmds, tmpd, scripts, wi,
                 deferPost, result, task, errorsCh, wg, x, e, ret, ctxCancelled>>
  /\ UNCHANGED besideExec

\* serial branch: the renderer returns; an error is returned at once
SerialEnd ==
  /\ pc = "serialWait"
  /\ \E res \in RendererResults :
       /\ Returned(cur, res)
       /\ IF res = "ok" THEN pc' = "serial" /\ ret' = ret
                        ELSE Return(ErrOf(cur, res))
  /\ UNCHANGED <<ctxNil, rdNil, stage, jsDelayed, cmds, tmpd, scripts, wi, visited, cur,
                 deferPost, invoked, task, errorsCh, wg, x, e, ctxCancelled>>
  /\ UNCHANGED besideExec

\* serial branch: the range is exhausted
SerialDone ==
  /\ pc = "serial"
  /\ visited = DOMAIN scripts
  /\ pc' = "post"
  /\ UNCHANGED <<ctxNil, rdNil, stage, jsDelayed, cmds, tmpd, scripts, wi, visited, cur,
                 deferPost, invoked, running, result, task, errorsCh, wg, x, e, ret,
                 ctxCancelled>>
  /\ UNCHANGED besideExec

\* concurrent branch: wg.Add(1) and the go statement for the next key
Launch ==
  /\ pc = "launch"
  /\ \E k \in DOMAIN scripts \ visited :
       /\ visited' = visited \cup {k}
       /\ task' = [task EXCEPT ![scripts[k]] = "launched"]
  /\ wg' = wg + 1
  /\ UNCHANGED <<ctxNil, rdNil, stage, jsDelayed, pc, cmds, tmpd, scripts, wi, cur,
                 deferPost, invoked, running, result, errorsCh, x, e, ret, ctxCancelled>>
  /\ UNCHANGED besideExec

\* goroutine: e := rd.RendererExecuter(ctx, envVars, s) is called
TaskStart(sc) ==
  /\ task[sc] = "launched"
  /\ task' = [task EXCEPT ![sc] = "running"]
  /\ Invoke(sc)
  /\ UNCHANGED <<ctxNil, rdNil, stage, jsDelayed, pc, cmds, tmpd, scripts, wi, visited,
                 cur, deferPost, result, errorsCh, wg, x, e, ret, ctxCancelled>>
  /\ UNCHANGED besideExec

\* goroutine: the renderer returns and the result is sent: errors <- e
TaskSend(sc) ==
  /\ task[sc] = "running"
  /\ Len(errorsCh) < Cardinality(DOMAIN scripts)
  /\ \E res \in RendererResults :
       /\ Returned(sc, res)
       /\ errorsCh' = Append(errorsCh, ErrOf(sc, res))
  /\ task' = [task EXCEPT ![sc] = "sent"]
  /\ UNCHANGED <<ctxNil, rdNil, stage, jsDelayed, pc, cmds, tmpd, scripts, wi, visited,
                 cur, deferPost, invoked, wg, x, e, ret, ctxCancelled>>
  /\ UNCHANGED besideExec

\* goroutine: the deferred w.Done()
TaskDone(sc) ==
  /\ task[sc] = "sent"
  /\ task' = [task EXCEPT ![sc] = "done"]
  /\ wg' = wg - 1
  /\ UNCHANGED <<ctxNil, rdNil, stage, jsDelayed, pc, cmds, tmpd, scripts, wi, visited,
                 cur, deferPost, invoked, running, result, errorsCh, x, e, ret,
                 ctxCancelled>>
  /\ UNCHANGED besideExec

\* WgWait as it would be without the wait for the counter
WgWaitWithoutWaiting ==
  /\ pc = "launch"
  /\ visited = DOMAIN scripts
  /\ pc' = "drain"
  /\ x' = 0
  /\ e' = NilErr
  /\ UNCHANGED <<ctxNil, rdNil, stage, jsDelayed, cmds, tmpd, scripts, wi, visited, cur,
                 deferPost, invoked, running, result, task, errorsCh, wg, ret,
                 ctxCancelled>>
  /\ UNCHANGED besideExec

\* wg.Wait() returns once the launch loop has ended and the counter is zero
WgWait ==
  /\ pc = "launch"
  /\ visited = DOMAIN scripts
  /\ wg = 0
  /\ pc' = "drain"
  /\ x' = 0
  /\ e' = NilErr
  /\ UNCHANGED <<ctxNil, rdNil, stage, jsDelayed, cmds, tmpd, scripts, wi, visited, cur,
                 deferPost, invoked, running, result, task, errorsCh, wg, ret,
                 ctxCancelled>>
  /\ UNCHANGED besideExec

\* one iteration of: for x := 0; x <= len(errors); x++ { err, ok := <-errors ... }
\* len(errors) is the number of values still queued; the channel is never
\* closed, so the receive blocks on an empty channel
Drain ==
  /\ pc = "drain"
  /\ x <= Len(errorsCh)
  /\ Len(errorsCh) > 0
  /\ e' = IF Head(errorsCh) # NilErr THEN Head(errorsCh) ELSE e
  /\ errorsCh' = Tail(errorsCh)
  /\ x' = x + 1
  /\ UNCHANGED <<ctxNil, rdNil, stage, jsDelayed, pc, cmds, tmpd, scripts, wi, visited,
                 cur, deferPost, invoked, running, result, task, wg, ret, ctxCancelled>>
  /\ UNCHANGED besideExec

\* the end of the loop as it would be with the bound x <= cap(errors)
DrainDoneAtCapacity ==
  /\ pc = "drain"
  /\ ~(x <= Cardinality(DOMAIN scripts))
  /\ IF e # NilErr THEN Return(e) ELSE pc' = "post" /\ ret' = ret
  /\ UNCHANGED <<ctxNil, rdNil, stage, jsDelayed, cmds, tmpd, scripts, wi, visited, cur,
                 deferPost, invoked, running, result, task, errorsCh, wg, x, e,
                 ctxCancelled>>
  /\ UNCHANGED besideExec

\* the draining loop ends: return e if it is set
DrainDone ==
  /\ pc = "drain"
  /\ ~(x <= Len(errorsCh))
  /\ IF e # NilErr THEN Return(e) ELSE pc' = "post" /\ ret' = ret
  /\ UNCHANGED <<ctxNil, rdNil, stage, jsDelayed, cmds, tmpd, scripts, wi, visited, cur,
                 deferPost, invoked, running, result, task, errorsCh, wg, x, e,
                 ctxCancelled>>
  /\ UNCHANGED besideExec

\* after main: without PostAlways post.sh is run here, else return nil
PostStage ==
  /\ pc = "post"
  /\ IF ~stage.PostAlways
       THEN Invoke(postScript) /\ pc' = "postWait" /\ ret' = ret
       ELSE Return(NilErr) /\ UNCHANGED <<invoked, running>>
  /\ UNCHANGED <<ctxNil, rdNil, stage, jsDelayed, cmds, tmpd, scripts, wi, visited, cur,
                 deferPost, result, task, errorsCh, wg, x, e, ctxCancelled>>
  /\ UNCHANGED besideExec

\* return rd.RendererExecuter(ctx, envVars, postScript)
PostEnd ==
  /\ pc = "postWait"
  /\ \E res \in RendererResults :
       /\ Returned(postScript, res)
       /\ Return(ErrOf(postScript, res))
  /\ UNCHANGED <<ctxNil, rdNil, stage, jsDelayed, cmds, tmpd, scripts, wi, visited, cur,
                 deferPost, invoked, task, errorsCh, wg, x, e, ctxCancelled>>
  /\ UNCHANGED besideExec

\* the deferred closure calls the renderer on post.sh
DeferPostStart ==
  /\ pc = "deferPost"
  /\ Invoke(postScript)
  /\ pc' = "deferPostWait"
  /\ UNCHANGED <<ctxNil, rdNil, stage, jsDelayed, cmds, tmpd, scripts, wi, visited, cur,
                 deferPost, result, task, errorsCh, wg, x, e, ret, ctxCancelled>>
  /\ UNCHANGED besideExec

\* ... and drops its result
DeferPostEnd ==
  /\ pc = "deferPostWait"
  /\ \E res \in RendererResults : Returned(postScript, res)
  /\ pc' = "deferRemove"
  /\ UNCHANGED <<ctxNil, rdNil, stage, jsDelayed, cmds, tmpd, scripts, wi, visited, cur,
                 deferPost, invoked, task, errorsCh, wg, x, e, ret, ctxCancelled>>
  /\ UNCHANGED besideExec

\* the deferred call as os.Remove(tmpd), which fails on a directory with files
RemoveAllKeeping ==
  /\ pc = "deferRemove"
  /\ tmpd' = tmpd
  /\ pc' = "done"
  /\ UNCHANGED <<ctxNil, rdNil, stage, jsDelayed, cmds, scripts, wi, visited, cur,
                 deferPost, invoked, running, result, task, errorsCh, wg, x, e, ret,
                 ctxCancelled>>
  /\ UNCHANGED besideExec

\* the deferred os.RemoveAll(tmpd); Execute has returned
RemoveAll ==
  /\ pc = "deferRemove"
  /\ tmpd' = "removed"
  /\ pc' = "done"
  /\ UNCHANGED <<ctxNil, rdNil, stage, jsDelayed, cmds, scripts, wi, visited, cur,
                 deferPost, invoked, running, result, task, errorsCh, wg, x, e, ret,
                 ctxCancelled>>
  /\ UNCHANGED besideExec

\* the caller cancels ctx while Execute is running
Cancel ==
  /\ pc \notin {"start", "done"}
  /\ ~ctxCancelled
  /\ ctxCancelled' = TRUE
  /\ UNCHANGED <<ctxNil, rdNil, stage, jsDelayed, pc, cmds, tmpd, scripts, wi, visited,
                 cur, deferPost, invoked, running, result, task, errorsCh, wg, x, e, ret>>
  /\ UNCHANGED besideExec

ExecNext ==
  \/ Validate
  \/ TempDir
  \/ WritePrep
  \/ PrepStart
  \/ PrepEnd
  \/ WritePost
  \/ WriteScript
  \/ ScriptsWritten
  \/ SerialStart
  \/ SerialEnd
  \/ SerialDone
  \/ Launch
  \/ \E sc \in MainScripts : TaskStart(sc)
  \/ \E sc \in MainScripts : TaskSend(sc)
  \/ \E sc \in MainScripts : TaskDone(sc)
  \/ WgWait
  \/ Drain
  \/ DrainDone
  \/ PostStage
  \/ PostEnd
  \/ DeferPostStart
  \/ DeferPostEnd
  \/ RemoveAll
  \/ Cancel

Next == ExecNext

Spec == Init /\ [][Next]_vars

\* Execute on a stage of user commands only, where every goroutine that can
\* take a step is eventually scheduled and every renderer invocation
\* eventually returns
LiveInit ==
  /\ Init
  /\ stage.BuildArtifacts = <<>>
  /\ ~jsDelayed

LiveSpec == LiveInit /\ [][Next]_vars /\ WF_vars(Next)

\* ------------------------------------------------------- Execute properties
\* the main scripts of this invocation, in insertion order
MainOrder == [i \in 1..Len(cmds) |-> ScriptName(i - 1)]
Mains == Range(MainOrder)

\* the main-script invocations, in call order
MainInvoked == SelectSeq(invoked, LAMBDA sc : sc \in MainScripts)

Calls(sc) == Count(invoked, sc)
Failed(sc) == result[sc] \in {"err", "cancelled"}
ReturnsError == ret # Pending /\ ret # NilErr
HasReturned == pc = "done"

\* the main stage was entered with every script written and prep succeeded
MainStarted == result[prepScript] = "ok" /\ Len(cmds) >= 1 /\ DOMAIN scripts = 0..(Len(cmds) - 1)
                 /\ pc \notin {"writeScripts"}

\* the arguments Execute has to reject
UnknownArtifact ==
  \E i \in DOMAIN stage.BuildArtifacts :
    /\ ToLower(stage.BuildArtifacts[i]) \notin {"base", "finalize"}
    /\ stage.BuildArtifacts[i] \notin Catalogue
InvalidInput ==
  \/ ctxNil
  \/ rdNil
  \/ UnknownArtifact
  \/ Len(stage.BuildArtifacts) + Len(stage.Commands) = 0

\* C1: concurrent execution of n >= 1 main scripts after a successful prep:
\* when Execute returns, every main script was handed to the renderer exactly
\* once, all n results were taken from the channel, and a main invocation
\* failed if and only if Execute returns an error (which, without PostAlways,
\* may also be the error of post.sh run after a successful main stage)
C1_ConcurrentAllResults ==
  (HasReturned /\ stage.ConcurrentExecution /\ MainStarted) =>
    /\ \A sc \in Mains : Calls(sc) = 1
    /\ Len(MainInvoked) = Len(cmds)
    /\ errorsCh = <<>>
    /\ (\E sc \in Mains : Failed(sc)) => ReturnsError
    /\ ReturnsError => \/ \E sc \in Mains : Failed(sc)
                       \/ (~stage.PostAlways /\ Failed(postScript))

\* C2: serial execution calls the renderer on the main scripts in insertion
\* order, one at a time; all n if none fails, else exactly the scripts up to
\* the first failing one, whose error Execute returns
C2_SerialInsertionOrder ==
  (~stage.ConcurrentExecution /\ result[prepScript] = "ok") =>
    /\ MainInvoked = SubSeq(MainOrder, 1, Len(MainInvoked))
    /\ Cardinality(running \cap MainScripts) <= 1
    /\ (HasReturned /\ MainStarted) =>
         IF \E sc \in Mains : Failed(sc)
           THEN LET k == CHOOSE i \in 1..Len(cmds) :
                           /\ Failed(MainOrder[i])
                           /\ \A m \in 1..(i - 1) : ~Failed(MainOrder[m])
                IN /\ MainInvoked = SubSeq(MainOrder, 1, k)
                   /\ ret = ErrOf(MainOrder[k], result[MainOrder[k]])
           ELSE MainInvoked = MainOrder

\* C3: with PostAlways, once prep has succeeded and post.sh has been written,
\* post.sh is handed to the renderer exactly once before Execute returns, on
\* success and on failure of the main stage (serial or concurrent), and only
\* after every started main-script invocation has returned
C3_PostAlwaysOnce ==
  /\ (/\ HasReturned
      /\ stage.PostAlways
      /\ result[prepScript] = "ok"
      /\ ret # Err("io", postScript, "WriteFile")) => Calls(postScript) = 1
  /\ stage.PostAlways =>
       /\ Calls(postScript) <= 1
       /\ postScript \in Range(invoked) =>
            /\ running \subseteq {postScript}
            /\ invoked[Len(invoked)] = postScript
            /\ \A sc \in MainScripts : task[sc] \in {"new", "done"}

\* post.sh ran exactly once after a main failure in the concurrent branch
C3_Witness ==
  /\ HasReturned /\ stage.PostAlways /\ stage.ConcurrentExecution
  /\ \E sc \in Mains : Failed(sc) /\ ret = ErrOf(sc, result[sc])
  /\ Calls(postScript) = 1
  /\ Len(MainInvoked) = 3

\* C4: without PostAlways post.sh runs exactly once if the main stage
\* succeeded and not at all if prep or a main command failed, and then its
\* result is Execute's result; with PostAlways the result of post.sh never
\* is Execute's result; post.sh runs at most once
C4_PostPolicy ==
  /\ Calls(postScript) <= 1
  /\ (HasReturned /\ ~stage.PostAlways) =>
       /\ (MainStarted /\ \A sc \in Mains : Calls(sc) = 1 /\ result[sc] = "ok") =>
            /\ Calls(postScript) = 1
            /\ ret = ErrOf(postScript, result[postScript])
       /\ (Failed(prepScript) \/ \E sc \in Mains : Failed(sc)) =>
            Calls(postScript) = 0
  /\ (HasReturned /\ stage.PostAlways /\ Failed(postScript)) =>
       ret # ErrOf(postScript, result[postScript])

\* C5: prep.sh is the first script handed to the renderer and has returned
\* successfully before any main script starts; if it fails, Execute returns
\* an error and no main script and no post.sh is run
C5_PrepFirst ==
  /\ invoked # <<>> => invoked[1] = prepScript
  /\ Calls(prepScript) <= 1
  /\ Len(invoked) >= 2 => result[prepScript] = "ok"
  /\ Failed(prepScript) => invoked = <<prepScript>>
  /\ (HasReturned /\ Failed(prepScript)) => ReturnsError

\* a failed prep ended an Execute with PostAlways and ConcurrentExecution
C5_Witness ==
  /\ HasReturned /\ Failed(prepScript)
  /\ stage.PostAlways /\ stage.ConcurrentExecution
  /\ Len(cmds) = 3

\* C6: in the concurrent branch, from the return statement on, no launched
\* main-script goroutine is still running, also after a cancellation of ctx
C6_NoTaskOutlivesExecute ==
  (stage.ConcurrentExecution /\ (ret # Pending \/ HasReturned)) =>
    /\ running \cap MainScripts = {}
    /\ \A sc \in MainScripts : task[sc] \in {"new", "done"}

\* Execute returned after ctx was cancelled while three tasks were running
C6_Witness ==
  /\ HasReturned /\ stage.ConcurrentExecution /\ ctxCancelled
  /\ Cardinality({sc \in Mains : task[sc] = "done"}) = 3
  /\ \E sc \in Mains : result[sc] = "cancelled"

\* C7: a nil ctx, a nil renderData, an unknown build artifact or an empty
\* command list makes Execute return an error without any renderer call and
\* without creating the scratch directory
C7_RejectsInvalidInput ==
  InvalidInput =>
    /\ invoked = <<>>
    /\ tmpd = "none"
    /\ pc \in {"start", "done"}
    /\ HasReturned => ReturnsError

\* an unknown build artifact was rejected although PostAlways is set
C7_Witness ==
  /\ HasReturned /\ ReturnsError
  /\ ~ctxNil /\ ~rdNil /\ UnknownArtifact /\ stage.PostAlways
  /\ Len(stage.Commands) = 2

\* ------------------------------------------------------------------ planner
\* shorthands offered to GenerateStages; "bogus" is not a known artifact
Shorthands == {"base", "finalize", "live-iso", "metal", "metal4k", "qemu", "aws", "bogus"}

ZeroStage == [ID |-> <<>>, Description |-> <<>>, ExecutionOrder |-> 0,
              BuildArtifacts |-> <<>>, RequireArtifacts |-> <<>>]

\* the closure quickStage of addShorthandToStage(artifact, ...): its default
\* case asks the catalogue about the captured artifact, not about noun
quickStage(noun, artifact) ==
  CASE noun = "base" ->
         [fatal |-> FALSE, ExecutionOrder |-> 1,
          BuildArtifacts |-> <<"base">>, RequireArtifacts |-> <<"base">>]
    [] noun = "finalize" ->
         [fatal |-> FALSE, ExecutionOrder |-> 999,
          BuildArtifacts |-> <<"finalize">>, RequireArtifacts |-> <<>>]
    [] noun = "live-iso" ->
         [fatal |-> FALSE, ExecutionOrder |-> 2,
          BuildArtifacts |-> <<"live-iso">>,
          RequireArtifacts |-> <<"qemu", "metal", "metal4k">>]
    [] noun = "metal" ->
         [fatal |-> FALSE, ExecutionOrder |-> 2,
          BuildArtifacts |-> <<"metal">>, RequireArtifacts |-> <<>>]
    [] noun = "metal4k" ->
         [fatal |-> FALSE, ExecutionOrder |-> 2,
          BuildArtifacts |-> <<"metal4k">>, RequireArtifacts |-> <<>>]
    [] OTHER ->
         IF ~CanArtifact(artifact)
           THEN [fatal |-> TRUE, ExecutionOrder |-> 0,
                 BuildArtifacts |-> <<>>, RequireArtifacts |-> <<>>]
           ELSE [fatal |-> FALSE, ExecutionOrder |-> 3,
                 BuildArtifacts |-> <<artifact>>, RequireArtifacts |-> <<"qemu">>]

\* the closure remove, applied to the slice arr[1..len]: the first match is
\* cut out by append(slice[:x], slice[x+1:]...), which shifts the tail left
\* inside the same backing array and leaves the cell behind the slice as is
remove(arr, len, key) ==
  IF \E i \in 1..len : arr[i] = key
    THEN LET xx == CHOOSE i \in 1..len :
                     arr[i] = key /\ \A k \in 1..(i - 1) : arr[k] # key
         IN [arr |-> [i \in DOMAIN arr |->
                        IF i >= xx /\ i < len THEN arr[i + 1] ELSE arr[i]],
             len |-> len - 1,
             found |-> TRUE]
    ELSE [arr |-> arr, len |-> len, found |-> FALSE]

\* the closure unique: keep the first occurrence of every entry
unique(strSlice) ==
  LET F[i \in 0..Len(strSlice)] ==
        IF i = 0 THEN <<>>
        ELSE IF strSlice[i] \in Range(F[i - 1]) THEN F[i - 1]
        ELSE Append(F[i - 1], strSlice[i])
  IN F[Len(strSlice)]

\* artifactOrder: the map from execution order to the artifacts of that order
artifactOrder(ba, artifact) ==
  [o \in {quickStage(ba[i], artifact).ExecutionOrder : i \in DOMAIN ba} |->
     SelectSeq(ba, LAMBDA v : quickStage(v, artifact).ExecutionOrder = o)]

\* newOrder: the values of artifactOrder appended in the order ks in which
\* the range over the map yields its keys
RECURSIVE newOrder(_, _)
newOrder(ao, ks) ==
  IF ks = <<>> THEN <<>> ELSE ao[Head(ks)] \o newOrder(ao, Tail(ks))

\* the orders in which a range over a map with key set K may yield its keys
KeyOrders(K) ==
  {ks \in [1..Cardinality(K) -> K] : \A a, b \in DOMAIN ks : a # b => ks[a] # ks[b]}

\* the inner loop as it would be if a match removed nothing
pruneInnerKeeping(ba, idx, arr, len) == [arr |-> arr, len |-> len]

\* inner loop: for _, ra := range stage.RequireArtifacts { if ra == ba {...} }
\* arr[1..L] is stage.RequireArtifacts, arr[1..len] is realRequires; both
\* slices share the array arr, and ra is read from it at every iteration
RECURSIVE pruneInner(_, _, _, _)
pruneInner(ba, idx, arr, len) ==
  IF idx > Len(arr) THEN [arr |-> arr, len |-> len]
  ELSE IF arr[idx] = ba
         THEN LET r == remove(arr, len, arr[idx])
              IN pruneInner(ba, idx + 1, r.arr, r.len)
         ELSE pruneInner(ba, idx + 1, arr, len)

\* outer loop: for _, ba := range stage.BuildArtifacts
RECURSIVE pruneOuter(_, _, _, _)
pruneOuter(bas, b, arr, len) ==
  IF b > Len(bas) THEN [arr |-> arr, len |-> len]
  ELSE LET r == pruneInner(bas[b], 1, arr, len)
       IN pruneOuter(bas, b + 1, r.arr, r.len)

\* the special handling of base: remove base and, if it was found, ostree and qemu
pruneBase(arr, len) ==
  LET r1 == remove(arr, len, "base")
      r2 == remove(r1.arr, r1.len, "ostree")
      r3 == remove(r2.arr, r2.len, "qemu")
  IN IF r1.found THEN [arr |-> r3.arr, len |-> r3.len]
                 ELSE [arr |-> r1.arr, len |-> r1.len]

\* log.Fatalf is reached: the shorthand, or an artifact classified through
\* the captured artifact, is unknown
addShorthandFatal(artifact, st) ==
  \/ quickStage(artifact, artifact).fatal
  \/ \E i \in DOMAIN st.BuildArtifacts : quickStage(st.BuildArtifacts[i], artifact).fatal

\* lowestOrder as it would be if the order of the last shorthand were taken
lowestOrderOfLast(working, st) == working.ExecutionOrder

\* the ExecutionOrder addShorthandToStage assigns
lowestOrder(working, st) ==
  IF working.ExecutionOrder < st.ExecutionOrder \/ st.ExecutionOrder = 0
    THEN working.ExecutionOrder
    ELSE st.ExecutionOrder

\* addShorthandToStage(artifact, &st) when the range over artifactOrder
\* yields its keys in the order ks
addShorthandToStage(artifact, st, ks) ==
  LET working == quickStage(artifact, artifact)
      ba1 == st.BuildArtifacts \o working.BuildArtifacts
      ra1 == st.RequireArtifacts \o working.RequireArtifacts
      order == lowestOrder(working, st)
      ba2 == unique(newOrder(artifactOrder(ba1, artifact), ks))
      p1 == pruneOuter(ba2, 1, ra1, Len(ra1))
      p2 == pruneBase(p1.arr, p1.len)
  IN [ID |-> <<"Generated Stage in Execution Order", order>>,
      Description |-> <<"Stage", order, "execution for", ba1>>,
      ExecutionOrder |-> order,
      BuildArtifacts |-> ba2,
      RequireArtifacts |-> unique(SubSeq(p2.arr, 1, p2.len))]

\* GenerateStages as it would be if Job.StrictMode were not set
GenerateStagesWithoutStrictMode ==
  /\ ppc \in {"idle", "returned"}
  /\ \E empty \in BOOLEAN :
       IF empty
         THEN /\ ppc' = "returned"
              /\ UNCHANGED <<j, group, s>>
         ELSE /\ folds < MaxShorthands
              /\ j' = [j EXCEPT !.DelayedMetaMerge = TRUE]
              /\ ppc' = "group"
              /\ group' = <<>>
              /\ s' = ZeroStage
  /\ fromNames' = <<>>
  /\ before' = j.Stages
  /\ UNCHANGED folds
  /\ UNCHANGED besidePlan

\* GenerateStages is called; an empty fromNames returns at once
GenerateStages ==
  /\ ppc \in {"idle", "returned"}
  /\ \E empty \in BOOLEAN :
       IF empty
         THEN /\ ppc' = "returned"
              /\ UNCHANGED <<j, group, s>>
         ELSE /\ folds < MaxShorthands
              /\ j' = [j EXCEPT !.DelayedMetaMerge = TRUE, !.StrictMode = TRUE]
              /\ ppc' = "group"
              /\ group' = <<>>
              /\ s' = ZeroStage
  /\ fromNames' = <<>>
  /\ before' = j.Stages
  /\ UNCHANGED folds
  /\ UNCHANGED besidePlan

\* one iteration of the inner loop: addShorthandToStage(k, &s) for the next
\* shorthand k of the group
Fold ==
  /\ ppc \in {"group", "fold"}
  /\ folds < MaxShorthands
  /\ \E k \in Shorthands :
       /\ group' = Append(group, k)
       /\ IF addShorthandFatal(k, s)
            THEN ppc' = "fatal" /\ s' = s
            ELSE /\ ppc' = "fold"
                 /\ \E ks \in KeyOrders(DOMAIN artifactOrder(
                                  s.BuildArtifacts \o <<k>>, k)) :
                      s' = addShorthandToStage(k, s, ks)
  /\ folds' = folds + 1
  /\ UNCHANGED <<j, fromNames, before>>
  /\ UNCHANGED besidePlan

\* the group is exhausted: j.Stages = append(j.Stages, s); then the next
\* group starts or GenerateStages returns
EndGroup ==
  /\ ppc = "fold"
  /\ j' = [j EXCEPT !.Stages = Append(j.Stages, s)]
  /\ fromNames' = Append(fromNames, group)
  /\ \E more \in BOOLEAN :
       IF more
         THEN /\ folds < MaxShorthands
              /\ ppc' = "group"
              /\ group' = <<>>
              /\ s' = ZeroStage
         ELSE /\ ppc' = "returned"
              /\ UNCHANGED <<group, s>>
  /\ UNCHANGED <<folds, before>>
  /\ UNCHANGED besidePlan

PlanNext ==
  \/ GenerateStages
  \/ Fold
  \/ EndGroup

ExecIdle ==
  /\ ExecInit
  /\ ctxNil /\ rdNil /\ ~jsDelayed
  /\ stage = [BuildArtifacts |-> <<>>, Commands |-> <<>>,
              PostAlways |-> FALSE, ConcurrentExecution |-> FALSE]

PlanInit == ExecIdle /\ PlanIdle /\ ClusterIdle /\ PodmanIdle /\ CopyIdle /\ StreamIdle

PlanSpec == PlanInit /\ [][PlanNext]_vars

\* ------------------------------------------------------- planner properties
NoDuplicates(seq) == \A a, b \in DOMAIN seq : a # b => seq[a] # seq[b]

\* the Stages produced so far, and the Stage under construction after a fold
PlannedStages == Range(j.Stages) \cup (IF ppc = "fold" THEN {s} ELSE {})

\* C8: every planned Stage, also after each single fold of
\* addShorthandToStage, has a duplicate-free buildArtifacts list and no name
\* that is both in requireArtifacts and in buildArtifacts
C8_BuildUniqueAndDisjoint ==
  \A st \in PlannedStages :
    /\ NoDuplicates(st.BuildArtifacts)
    /\ Range(st.RequireArtifacts) \cap Range(st.BuildArtifacts) = {}

\* a group that repeats a shorthand and requires what it also builds was planned
C8_Witness ==
  /\ ppc = "returned"
  /\ fromNames = << <<"metal", "qemu", "metal">> >>
  /\ Len(j.Stages) = 1

\* C9: if base is among a planned Stage's buildArtifacts then neither ostree
\* nor qemu is in its requireArtifacts
C9_BaseClearsOstreeQemu ==
  \A st \in PlannedStages :
    "base" \in Range(st.BuildArtifacts) =>
      /\ "ostree" \notin Range(st.RequireArtifacts)
      /\ "qemu" \notin Range(st.RequireArtifacts)

\* C10: GenerateStages on the group base+metal+live-iso produces exactly one
\* Stage, with executionOrder 1, buildArtifacts [base, metal, live-iso] and
\* empty requireArtifacts
C10_BaseMetalLiveIso ==
  (ppc = "returned" /\ fromNames = << <<"base", "metal", "live-iso">> >>) =>
    /\ Len(j.Stages) = Len(before) + 1
    /\ j.Stages[Len(j.Stages)].ExecutionOrder = 1
    /\ j.Stages[Len(j.Stages)].BuildArtifacts = <<"base", "metal", "live-iso">>
    /\ j.Stages[Len(j.Stages)].RequireArtifacts = <<>>

\* the order a shorthand implies: base 1, metal, metal4k and live-iso 2,
\* finalize 999, any other known artifact 3
ImpliedOrder(k) ==
  CASE k = "base" -> 1
    [] k \in {"metal", "metal4k", "live-iso"} -> 2
    [] k = "finalize" -> 999
    [] OTHER -> 3

\* the arrival-order sequence g stably partitioned by implied order, lowest
\* order first, keeping the first occurrence of every name
RECURSIVE KeepFirst(_)
KeepFirst(g) ==
  IF g = <<>> THEN <<>>
  ELSE LET rest == KeepFirst(SubSeq(g, 1, Len(g) - 1))
       IN IF g[Len(g)] \in Range(rest) THEN rest ELSE Append(rest, g[Len(g)])
PartitionedByOrder(g) ==
  KeepFirst(SelectSeq(g, LAMBDA k : ImpliedOrder(k) = 1)
            \o SelectSeq(g, LAMBDA k : ImpliedOrder(k) = 2)
            \o SelectSeq(g, LAMBDA k : ImpliedOrder(k) = 3)
            \o SelectSeq(g, LAMBDA k : ImpliedOrder(k) = 999))

\* C11: planning is deterministic: the buildArtifacts of the Stage folded from
\* a group is a function of the group, namely its arrival-order sequence
\* stably partitioned by implied order, lowest first, without duplicates
C11_DeterministicBuildOrder ==
  ppc = "fold" => s.BuildArtifacts = PartitionedByOrder(group)

RECURSIVE MinOrder(_)
MinOrder(g) ==
  IF Len(g) = 1 THEN ImpliedOrder(g[1])
  ELSE LET m == MinOrder(Tail(g))
       IN IF ImpliedOrder(g[1]) < m THEN ImpliedOrder(g[1]) ELSE m

OneStagePerGroup ==
  /\ Len(j.Stages) = Len(before) + Len(fromNames)
  /\ SubSeq(j.Stages, 1, Len(before)) = before
  /\ \A i \in DOMAIN fromNames :
       Range(j.Stages[Len(before) + i].BuildArtifacts) = Range(fromNames[i])

\* C13: after GenerateStages returns, for any list of groups, the empty list
\* included, delayedMetaMerge and strictMode are true and exactly one Stage
\* per group has been appended in group order behind the unchanged old Stages
C13_FlagsAndOneStagePerGroup ==
  ppc = "returned" =>
    /\ j.DelayedMetaMerge
    /\ j.StrictMode
    /\ OneStagePerGroup

\* C13 as amended: a call with a non-empty list returns with both flags true
\* and one Stage per group appended in group order behind the unchanged old
\* Stages; a call with the empty list returns without changing the job spec
C13_Amended ==
  [][ppc' = "returned" =>
        IF fromNames' = <<>>
          THEN j' = j
          ELSE /\ j'.DelayedMetaMerge
               /\ j'.StrictMode
               /\ Len(j'.Stages) = Len(before') + Len(fromNames')
               /\ SubSeq(j'.Stages, 1, Len(before')) = before'
               /\ \A i \in DOMAIN fromNames' :
                    Range(j'.Stages[Len(before') + i].BuildArtifacts)
                      = Range(fromNames'[i])]_vars

\* a second call with two groups returned on a job spec that had a Stage
C13_Witness ==
  /\ ppc = "returned"
  /\ Len(before) = 1
  /\ Len(fromNames) = 2
  /\ Len(j.Stages) = 3

\* C14: no two Stages of the job spec carry the same id, within one
\* GenerateStages call and across calls
C14_UniqueStageIds ==
  \A a, b \in DOMAIN j.Stages : a # b => j.Stages[a].ID # j.Stages[b].ID

\* ====================================================== clusterRunner
\* the timeout of the select loop, in minutes
PodTimeout == 90
\* the pause after a Failed phase, in minutes
FailedSleep == 1
\* the step by which the model lets time pass
Step == PodTimeout \div 3
\* events delivered on the watch channel in one run
MaxEvents == 3
\* steps of time in one run
MaxTicks == 5

Signals == {"SIGINT", "SIGTERM", "SIGUSR1", "SIGUSR2"}

InLoop == cpc = "select"
ClusterReturned == cpc \notin {"start", "created", "select"}

\* a return statement reached before any defer is registered
ReturnEarly(at, err) ==
  /\ cpc' = at
  /\ cret' = err
  /\ UNCHANGED <<hasInit, deletes, watchStopped, status, timer, clock, nEvents, sigs,
                 clusterCtxDone, logStarted, streamers>>

\* GetClient, getPodSpec and Pods(ns).Create
CreatePod ==
  /\ cpc = "start"
  /\ \E init \in BOOLEAN :
       /\ hasInit' = init
       /\ \/ /\ cpc' = "GetClient"
             /\ cret' = "GetClient failed"
             /\ UNCHANGED <<cpPod, podExists, status>>
          \/ /\ cpc' = "Create"
             /\ cret' = "failed to create pod"
             /\ UNCHANGED <<cpPod, podExists, status>>
          \/ /\ cpc' = "created"
             /\ cpPod' = TRUE
             /\ podExists' = TRUE
             /\ status' = "Pending"
             /\ UNCHANGED cret
  /\ UNCHANGED <<deletes, watchStopped, timer, clock, nEvents, sigs, clusterCtxDone,
                 logStarted, streamers>>
  /\ UNCHANGED besideCluster

\* Pods(ns).Watch, then defer w.Stop(), defer ender(), signal.Notify
OpenWatch ==
  /\ cpc = "created"
  /\ \/ ReturnEarly("Watch", "Watch failed")
     \/ /\ cpc' = "select"
        /\ timer' = clock
        /\ UNCHANGED <<hasInit, cret, deletes, watchStopped, status, clock, nEvents,
                       sigs, clusterCtxDone, logStarted, streamers>>
  /\ UNCHANGED <<cpPod, podExists>>
  /\ UNCHANGED besideCluster

\* a return from the loop: explicit calls of ender, then the deferred ender
\* and w.Stop(); a Delete that fails is logged and leaves the pod
ClusterReturnWithoutEnder(at, err, enderCalls) ==
  /\ cpc' = at
  /\ cret' = err
  /\ deletes' = deletes + enderCalls
  /\ podExists' = podExists
  /\ watchStopped' = TRUE
  /\ UNCHANGED <<hasInit, cpPod, timer, nEvents, clusterCtxDone, logStarted,
                 streamers>>

ClusterReturn(at, err, enderCalls) ==
  /\ cpc' = at
  /\ cret' = err
  /\ deletes' = deletes + enderCalls + 1
  /\ \E gone \in BOOLEAN : podExists' = (podExists /\ ~gone)
  /\ watchStopped' = TRUE
  /\ UNCHANGED <<hasInit, cpPod, timer, nEvents, clusterCtxDone, logStarted,
                 streamers>>

\* case events, ok := <-w.ResultChan() with ok false
WatchClosed ==
  /\ InLoop
  /\ ClusterReturn("WatchClosed", "orphaned pod", 0)
  /\ UNCHANGED <<status, clock, sigs>>
  /\ UNCHANGED besideCluster

Receive(phase) ==
  /\ InLoop
  /\ nEvents < MaxEvents
  /\ status' = phase

PodSucceeded ==
  /\ Receive("Succeeded")
  /\ ClusterReturn("Succeeded", "nil", 0)
  /\ UNCHANGED <<clock, sigs>>
  /\ UNCHANGED besideCluster

\* what one call of streamPodLogs does to *logging and to the goroutines
StreamOutcomes == {"GetClient failed", "no stream", "started"}

PodRunning ==
  /\ Receive("Running")
  /\ \E out \in [Range(Containers(hasInit)) -> StreamOutcomes] :
       /\ logStarted' = [c \in DOMAIN logStarted |->
                           IF c \notin DOMAIN out THEN logStarted[c]
                           ELSE IF out[c] = "GetClient failed" THEN "false" ELSE "true"]
       /\ streamers' = [c \in DOMAIN streamers |->
                          IF c \in DOMAIN out /\ out[c] = "started"
                          THEN streamers[c] + 1 ELSE streamers[c]]
  /\ nEvents' = nEvents + 1
  /\ timer' = clock
  /\ UNCHANGED <<hasInit, cpc, cret, cpPod, podExists, deletes, watchStopped, clock,
                 sigs, clusterCtxDone>>
  /\ UNCHANGED besideCluster

PodFailed ==
  /\ Receive("Failed")
  /\ clock' = clock + FailedSleep
  /\ ClusterReturn("Failed", "Pod is a failure in its life", 0)
  /\ UNCHANGED sigs
  /\ UNCHANGED besideCluster

\* default: of the switch
PodWaiting ==
  /\ \E phase \in {"Pending", "Unknown"} : Receive(phase)
  /\ nEvents' = nEvents + 1
  /\ timer' = clock
  /\ UNCHANGED <<hasInit, cpc, cret, cpPod, podExists, deletes, watchStopped, clock,
                 sigs, clusterCtxDone, logStarted, streamers>>
  /\ UNCHANGED besideCluster

TimerFired == clock - timer >= PodTimeout

TimeoutReturningNil ==
  /\ InLoop
  /\ TimerFired
  /\ ClusterReturn("Timeout", "nil", 0)
  /\ UNCHANGED <<status, clock, sigs>>
  /\ UNCHANGED besideCluster

\* case <-time.After(90 * time.Minute)
Timeout ==
  /\ InLoop
  /\ TimerFired
  /\ ClusterReturn("Timeout", "Pod did not complete work in time", 0)
  /\ UNCHANGED <<status, clock, sigs>>
  /\ UNCHANGED besideCluster

\* case <-sigs
Signalled ==
  /\ InLoop
  /\ sigs # <<>>
  /\ sigs' = Tail(sigs)
  /\ ClusterReturn("Signal", "Termination requested", 1)
  /\ UNCHANGED <<status, clock>>
  /\ UNCHANGED besideCluster

\* case <-ctx.Done()
CtxDone ==
  /\ InLoop
  /\ clusterCtxDone
  /\ ClusterReturn("CtxDone", "nil", 0)
  /\ UNCHANGED <<status, clock, sigs>>
  /\ UNCHANGED besideCluster

\* ---- environment of the loop
\* time passes; the goroutine blocked in select runs no later than the
\* instant its timer fires
Tick ==
  /\ InLoop
  /\ clock \div Step < MaxTicks
  /\ clock + Step <= timer + PodTimeout
  /\ clock' = clock + Step
  /\ UNCHANGED <<hasInit, cpc, cret, cpPod, podExists, deletes, watchStopped, status,
                 timer, nEvents, sigs, clusterCtxDone, logStarted, streamers>>
  /\ UNCHANGED besideCluster

\* a signal registered by signal.Notify arrives; a full channel drops it
Kill ==
  /\ InLoop
  /\ sigs = <<>>
  /\ \E sig \in Signals : sigs' = <<sig>>
  /\ UNCHANGED <<hasInit, cpc, cret, cpPod, podExists, deletes, watchStopped, status,
                 timer, clock, nEvents, clusterCtxDone, logStarted, streamers>>
  /\ UNCHANGED besideCluster

CancelCluster ==
  /\ ~ClusterReturned
  /\ ~clusterCtxDone
  /\ clusterCtxDone' = TRUE
  /\ UNCHANGED <<hasInit, cpc, cret, cpPod, podExists, deletes, watchStopped, status,
                 timer, clock, nEvents, sigs, logStarted, streamers>>
  /\ UNCHANGED besideCluster

ClusterNext ==
  \/ CreatePod
  \/ OpenWatch
  \/ WatchClosed
  \/ PodSucceeded
  \/ PodRunning
  \/ PodFailed
  \/ PodWaiting
  \/ Timeout
  \/ Signalled
  \/ CtxDone
  \/ Tick
  \/ Kill
  \/ CancelCluster

ClusterInit ==
  /\ ExecIdle
  /\ PlanIdle
  /\ ClusterIdle
  /\ PodmanIdle
  /\ CopyIdle
  /\ StreamIdle

ClusterSpec == ClusterInit /\ [][ClusterNext]_vars

\* ------------------------------------------------- clusterRunner properties
\* C15: clusterRunner returns nil if and only if a Succeeded phase was
\* observed: a nil return implies the last phase seen is Succeeded, and a
\* Succeeded phase seen yields a nil return.
C15_NilIffSucceeded ==
  ClusterReturned => (cret = "nil" <=> status = "Succeeded")

\* C15 as amended: clusterRunner returns nil if and only if it saw the
\* Succeeded phase or it left the loop through ctx.Done(); every other
\* return carries an error.
C15_Amended ==
  ClusterReturned => (cret = "nil" <=> (status = "Succeeded" \/ cpc = "CtxDone"))

C15_Witness ==
  /\ cpc = "Succeeded"
  /\ status = "Succeeded"
  /\ cret = "nil"
  /\ streamers["worker"] = 1

\* C16: once the pod has been created, every return of clusterRunner has
\* issued a delete of the pod.
C16_DeleteOnEveryReturn ==
  (ClusterReturned /\ cpPod) => deletes >= 1

\* C17: the deadline is absolute: clusterRunner is never still in its loop
\* more than PodTimeout minutes after it entered it, whatever events came.
C17_AbsoluteDeadline ==
  InLoop => clock <= PodTimeout

\* C18: a return through ctx.Done() has issued the delete of the pod and
\* returns nil; a return through a signal has issued the delete and
\* returns an error.
C18_CancelNilSignalError ==
  /\ cpc = "CtxDone" => (cret = "nil" /\ deletes >= 1)
  /\ cpc = "Signal" => (cret \notin {"nil", "pending"} /\ deletes >= 1)

C18_Witness ==
  /\ cpc = "CtxDone"
  /\ status = "Running"
  /\ clusterCtxDone
  /\ deletes = 1
  /\ cret = "nil"

\* ======================================================= podmanRunner
PodmanReturned == qpc = "returned"

\* a return statement reached before defer ender()
PodmanReturnEarly(err) ==
  /\ qpc' = "returned"
  /\ qret' = err
  /\ UNCHANGED qerr

\* podman.socket, NewConnection, NewRuntime, GetCluster, user.CurrentUser
Connect ==
  /\ qpc = "start"
  /\ \/ /\ qpc' = "fatal"
        /\ UNCHANGED <<qret, qerr>>
     \/ PodmanReturnEarly("no connection")
     \/ /\ qpc' = "srv"
        /\ UNCHANGED <<qret, qerr>>
  /\ UNCHANGED <<persistent, dirs, container, sName, cleaners, enders, wpc, podSigs,
                 podCtxDone>>
  /\ UNCHANGED besidePodman

\* srvDir: the caller's directory, or MkdirAll and chcon of an ephemeral one
EnsureSrv ==
  /\ qpc = "srv"
  /\ \E given \in BOOLEAN :
       /\ persistent' = given
       /\ IF given
          THEN /\ dirs' = [dirs EXCEPT !.caller = "exists"]
               /\ qpc' = "create"
               /\ UNCHANGED <<qret, qerr>>
          ELSE \/ /\ PodmanReturnEarly("failed to create emphemeral srv dir for pod")
                  /\ UNCHANGED dirs
               \/ /\ dirs' = [dirs EXCEPT !.ephemeral = "exists"]
                  /\ qpc' \in {"create", "fatal"}
                  /\ UNCHANGED <<qret, qerr>>
  /\ UNCHANGED <<container, sName, cleaners, enders, wpc, podSigs, podCtxDone>>
  /\ UNCHANGED besidePodman

\* s.Validate and containers.CreateWithSpec
CreateContainer ==
  /\ qpc = "create"
  /\ \/ /\ PodmanReturnEarly("failed to create container")
        /\ UNCHANGED container
     \/ /\ container' = "created"
        /\ qpc' = "lookup"
        /\ UNCHANGED <<qret, qerr>>
  /\ UNCHANGED <<persistent, dirs, sName, cleaners, enders, wpc, podSigs, podCtxDone>>
  /\ UNCHANGED besidePodman

\* rt.LookupContainer, then defer ender()
LookupContainer ==
  /\ qpc = "lookup"
  /\ \/ PodmanReturnEarly("failed to find container")
     \/ /\ qpc' = "startc"
        /\ UNCHANGED <<qret, qerr>>
  /\ UNCHANGED <<persistent, dirs, container, sName, cleaners, enders, wpc, podSigs,
                 podCtxDone>>
  /\ UNCHANGED besidePodman

\* containers.Start, signal.Notify and the two go statements
StartContainer ==
  /\ qpc = "startc"
  /\ \/ /\ qpc' = "ender"
        /\ qerr' = "start failed"
        /\ UNCHANGED <<container, wpc>>
     \/ /\ container' = "running"
        /\ wpc' = "waiting"
        /\ qpc' = "wait"
        /\ UNCHANGED qerr
  /\ UNCHANGED <<persistent, qret, dirs, sName, cleaners, enders, podSigs, podCtxDone>>
  /\ UNCHANGED besidePodman

\* rc, _ := lb.Wait()
WaitContainer ==
  /\ qpc = "wait"
  /\ container \in {"exited 0", "exited 1", "removed"}
  /\ \E rc \in {0, 1} :
       /\ container = "exited 0" => rc = 0
       /\ container = "exited 1" => rc = 1
       /\ qerr' = IF rc # 0 THEN "work pod failed" ELSE "nil"
  /\ qpc' = "ender"
  /\ UNCHANGED <<persistent, qret, dirs, container, sName, cleaners, enders, wpc,
                 podSigs, podCtxDone>>
  /\ UNCHANGED besidePodman

\* ender up to the test of podmanSrvDir: containers.Remove, its error dropped
RemoveWorker ==
  /\ enders' = enders + 1
  /\ \E ok \in BOOLEAN : container' = IF ok THEN "removed" ELSE container

\* the rest of ender: the cleaner container, then the deferred
\* containers.Remove and os.RemoveAll, their errors dropped
CleanSrv ==
  /\ sName' = sName + 1
  /\ \E made \in {0, 1} : cleaners' = cleaners + made
  /\ \E ok \in BOOLEAN : dirs' = [dirs EXCEPT !.ephemeral = IF ok THEN "removed" ELSE @]

\* the deferred ender of the returning goroutine
MainEnder ==
  /\ qpc = "ender"
  /\ RemoveWorker
  /\ IF persistent
     THEN /\ qpc' = "returned"
          /\ qret' = qerr
     ELSE /\ qpc' = "cleanup"
          /\ UNCHANGED qret
  /\ UNCHANGED <<persistent, qerr, dirs, sName, cleaners, wpc, podSigs, podCtxDone>>
  /\ UNCHANGED besidePodman

MainCleanup ==
  /\ qpc = "cleanup"
  /\ CleanSrv
  /\ qpc' = "returned"
  /\ qret' = qerr
  /\ UNCHANGED <<persistent, qerr, container, enders, wpc, podSigs, podCtxDone>>
  /\ UNCHANGED besidePodman

\* the goroutine of line 643: select on sigs and ctx.Done()
Woken ==
  /\ wpc = "waiting"
  /\ \/ /\ podSigs # <<>>
        /\ podSigs' = Tail(podSigs)
     \/ /\ podCtxDone
        /\ UNCHANGED podSigs
  /\ wpc' = "ender"
  /\ UNCHANGED <<persistent, qpc, qret, qerr, dirs, container, sName, cleaners, enders,
                 podCtxDone>>
  /\ UNCHANGED besidePodman

WokenEnder ==
  /\ wpc = "ender"
  /\ RemoveWorker
  /\ wpc' = IF persistent THEN "done" ELSE "cleanup"
  /\ UNCHANGED <<persistent, qpc, qret, qerr, dirs, sName, cleaners, podSigs, podCtxDone>>
  /\ UNCHANGED besidePodman

WokenCleanup ==
  /\ wpc = "cleanup"
  /\ CleanSrv
  /\ wpc' = "done"
  /\ UNCHANGED <<persistent, qpc, qret, qerr, container, enders, podSigs, podCtxDone>>
  /\ UNCHANGED besidePodman

\* ---- environment
WorkerExit ==
  /\ container = "running"
  /\ container' \in {"exited 0", "exited 1"}
  /\ UNCHANGED <<persistent, qpc, qret, qerr, dirs, sName, cleaners, enders, wpc, podSigs,
                 podCtxDone>>
  /\ UNCHANGED besidePodman

PodmanKill ==
  /\ wpc = "waiting"
  /\ podSigs = <<>>
  /\ \E sig \in Signals : podSigs' = <<sig>>
  /\ UNCHANGED <<persistent, qpc, qret, qerr, dirs, container, sName, cleaners, enders,
                 wpc, podCtxDone>>
  /\ UNCHANGED besidePodman

PodmanCancel ==
  /\ qpc \notin {"start", "fatal"}
  /\ ~podCtxDone
  /\ podCtxDone' = TRUE
  /\ UNCHANGED <<persistent, qpc, qret, qerr, dirs, container, sName, cleaners, enders,
                 wpc, podSigs>>
  /\ UNCHANGED besidePodman

PodmanNext ==
  \/ Connect
  \/ EnsureSrv
  \/ CreateContainer
  \/ LookupContainer
  \/ StartContainer
  \/ WaitContainer
  \/ MainEnder
  \/ MainCleanup
  \/ Woken
  \/ WokenEnder
  \/ WokenCleanup
  \/ WorkerExit
  \/ PodmanKill
  \/ PodmanCancel

PodmanInit ==
  /\ ExecIdle
  /\ PlanIdle
  /\ ClusterIdle
  /\ PodmanIdle
  /\ CopyIdle
  /\ StreamIdle

PodmanSpec == PodmanInit /\ [][PodmanNext]_vars

\* --------------------------------------------------- podmanRunner properties
\* C19: whenever podmanRunner has returned after it created the ephemeral
\* host directory, the worker container, if created, has been removed and
\* the ephemeral directory has been removed; the caller's /srv is never
\* removed.
C19_PodmanCleansUp ==
  /\ (PodmanReturned /\ dirs.ephemeral # "absent") =>
        (container \in {"none", "removed"} /\ dirs.ephemeral = "removed")
  /\ dirs.caller # "removed"

\* ====================================================== Stage.DeepCopy
\* A string is a sequence of units: the characters "a", "z" and "<", the
\* byte "xFF" that is not valid UTF-8, and the rune "uFFFD".  A slice is a
\* header [ptr, len] into heap; its capacity is the length of heap[ptr].
StringFields == {"ID", "Description"}
BoolFields == {"ConcurrentExecution", "DirectExec", "NotBlocking", "PostAlways"}
IntFields == {"ExecutionOrder"}
SliceOrder == <<"RequireArtifacts", "BuildArtifacts", "Commands", "PrepCommands",
                "PostCommands">>
SliceFields == Range(SliceOrder)
Fields == StringFields \cup BoolFields \cup IntFields \cup SliceFields

\* the key and the omitempty option that encoding/json takes from the tags
Tag ==
  [ID                  |-> [name |-> "ID", omitempty |-> FALSE],
   Description         |-> [name |-> "description", omitempty |-> TRUE],
   ConcurrentExecution |-> [name |-> "concurrent", omitempty |-> TRUE],
   DirectExec          |-> [name |-> "direct_exec", omitempty |-> TRUE],
   NotBlocking         |-> [name |-> "not_blocking", omitempty |-> TRUE],
   RequireArtifacts    |-> [name |-> "requires_artifacts", omitempty |-> TRUE],
   BuildArtifacts      |-> [name |-> "build_artifacts", omitempty |-> TRUE],
   Commands            |-> [name |-> "commands", omitempty |-> TRUE],
   PrepCommands        |-> [name |-> "prep_commands", omitempty |-> TRUE],
   PostCommands        |-> [name |-> "post_commands", omitempty |-> TRUE],
   PostAlways          |-> [name |-> "post_always", omitempty |-> TRUE],
   ExecutionOrder      |-> [name |-> "execution_order", omitempty |-> TRUE]]

\* the elements of a slice
Elems(sl, h) == IF sl.ptr = 0 THEN <<>> ELSE SubSeq(h[sl.ptr], 1, sl.len)

\* json.Marshal of a string: invalid UTF-8 becomes U+FFFD, "<" is escaped
EncodeUnit(u) ==
  CASE u = "xFF" -> "\\ufffd"
    [] u = "<" -> "\\u003c"
    [] OTHER -> u
EncodeString(str) == [i \in 1..Len(str) |-> EncodeUnit(str[i])]

\* json.Unmarshal of a string
DecodeUnit(u) ==
  CASE u = "\\ufffd" -> "uFFFD"
    [] u = "\\u003c" -> "<"
    [] OTHER -> u
DecodeString(js) == [i \in 1..Len(js) |-> DecodeUnit(js[i])]

IsEmptyValue(f, st) ==
  CASE f \in StringFields -> st[f] = <<>>
    [] f \in BoolFields -> st[f] = FALSE
    [] f \in IntFields -> st[f] = 0
    [] OTHER -> st[f].len = 0

Emitted(st) == {f \in Fields : ~(Tag[f].omitempty /\ IsEmptyValue(f, st))}
FieldOf(key) == CHOOSE f \in Fields : Tag[f].name = key

\* json.Marshal(s): the JSON object, by key
Marshal(st, h) ==
  [key \in {Tag[f].name : f \in Emitted(st)} |->
     LET f == FieldOf(key) IN
     CASE f \in StringFields -> EncodeString(st[f])
       [] f \in SliceFields ->
            [i \in 1..st[f].len |-> EncodeString(Elems(st[f], h)[i])]
       [] OTHER -> st[f]]

\* the slice fields json.Unmarshal allocates, in the order of the struct
Allocated(doc) == SelectSeq(SliceOrder, LAMBDA f : Tag[f].name \in DOMAIN doc)
IndexOf(seq, v) == CHOOSE i \in DOMAIN seq : seq[i] = v

\* json.Unmarshal(out, &ns) into Stage{}: the Stage, and the heap with the
\* arrays it allocated, each with spare unused slots behind its elements
UnmarshalStage(doc, h) ==
  [f \in Fields |->
     IF Tag[f].name \notin DOMAIN doc THEN EmptyStage[f]
     ELSE CASE f \in StringFields -> DecodeString(doc[Tag[f].name])
            [] f \in SliceFields ->
                 [ptr |-> Len(h) + IndexOf(Allocated(doc), f),
                  len |-> Len(doc[Tag[f].name])]
            [] OTHER -> doc[Tag[f].name]]

UnmarshalHeap(doc, h, spare) ==
  h \o [i \in 1..Len(Allocated(doc)) |->
          LET js == doc[Tag[Allocated(doc)[i]].name] IN
          [k \in 1..Len(js) |-> DecodeString(js[k])] \o [k \in 1..spare |-> <<>>]]

\* DeepCopy: ns := Stage{}, json.Marshal(s), json.Unmarshal(out, &ns)
DeepCopy ==
  /\ dpc = "start"
  /\ dpc' = "copied"
  /\ LET out == Marshal(orig, heap) IN
     \E spare \in {0, 1} :
       /\ ns' = UnmarshalStage(out, heap)
       /\ heap' = UnmarshalHeap(out, heap, spare)
  /\ UNCHANGED <<orig, mutated>>
  /\ UNCHANGED besideCopy

\* ---- what the owners of the two Stages may do afterwards
Side(side) == IF side = "orig" THEN orig ELSE ns

\* st.f = append(st.f, v): in place when the capacity allows
Appended(sl, v, h) ==
  IF sl.ptr # 0 /\ sl.len < Len(h[sl.ptr])
  THEN [sl |-> [sl EXCEPT !.len = @ + 1],
        h  |-> [h EXCEPT ![sl.ptr][sl.len + 1] = v]]
  ELSE [sl |-> [ptr |-> Len(h) + 1, len |-> sl.len + 1],
        h  |-> Append(h, Append(Elems(sl, h), v))]

Store(side, f, sl) ==
  /\ orig' = IF side = "orig" THEN [orig EXCEPT ![f] = sl] ELSE orig
  /\ ns' = IF side = "ns" THEN [ns EXCEPT ![f] = sl] ELSE ns

AppendTo(side, f) ==
  /\ dpc = "copied"
  /\ side \notin mutated
  /\ mutated' = mutated \cup {side}
  /\ LET r == Appended(Side(side)[f], <<"z">>, heap) IN
       /\ Store(side, f, r.sl)
       /\ heap' = r.h
  /\ UNCHANGED dpc
  /\ UNCHANGED besideCopy

\* st.f[0] = v
Overwrite(side, f) ==
  /\ dpc = "copied"
  /\ side \notin mutated
  /\ Side(side)[f].len >= 1
  /\ mutated' = mutated \cup {side}
  /\ heap' = [heap EXCEPT ![Side(side)[f].ptr][1] = <<"z">>]
  /\ UNCHANGED <<dpc, orig, ns>>
  /\ UNCHANGED besideCopy

Sides == {"orig", "ns"}

CopyNext ==
  \/ DeepCopy
  \/ \E side \in Sides, f \in SliceFields : AppendTo(side, f)
  \/ \E side \in Sides, f \in SliceFields : Overwrite(side, f)

\* the slices a caller may hold: nil, empty, or one element with a spare slot
Shapes == {"nil", "empty", "spare"}
IdInputs == {<<"a">>, <<"a", "xFF">>}
DescriptionInputs == {<<>>, <<"<">>}
OrderInputs == {0, 2}

CopyInit ==
  /\ ExecIdle
  /\ PlanIdle
  /\ ClusterIdle
  /\ PodmanIdle
  /\ StreamIdle
  /\ dpc = "start"
  /\ ns = EmptyStage
  /\ mutated = {}
  /\ \E shape \in [SliceFields -> Shapes], id \in IdInputs, d \in DescriptionInputs,
        flag \in BOOLEAN, o \in OrderInputs :
       /\ heap = [i \in 1..Len(SliceOrder) |->
                    IF shape[SliceOrder[i]] = "spare" THEN << <<"a">>, <<>> >> ELSE <<>>]
       /\ orig = [f \in Fields |->
                    CASE f = "ID" -> id
                      [] f = "Description" -> d
                      [] f \in {"ConcurrentExecution", "PostAlways"} -> flag
                      [] f \in {"DirectExec", "NotBlocking"} -> ~flag
                      [] f \in IntFields -> o
                      [] OTHER ->
                           [ptr |-> IF shape[f] = "nil" THEN 0 ELSE IndexOf(SliceOrder, f),
                            len |-> IF shape[f] = "spare" THEN 1 ELSE 0]]

CopySpec == CopyInit /\ [][CopyNext]_vars

\* ------------------------------------------------- Stage.DeepCopy properties
\* the value of a Stage: its scalars and the elements of its five slices
View(st, h) ==
  [f \in Fields |-> IF f \in SliceFields THEN Elems(st[f], h) ELSE st[f]]

\* C20: the Stage returned by DeepCopy equals the receiver in every field,
\* and a later append to or overwrite of a slice of one of the two Stages
\* leaves the value of the other Stage as it was.
C20_DeepCopyIndependent ==
  [][/\ (dpc = "start" /\ dpc' = "copied") => View(ns', heap') = View(orig', heap')
     /\ \A side \in Sides :
          (mutated' # mutated /\ side \notin mutated' \ mutated) =>
            View(Side(side)', heap') = View(Side(side), heap)]_vars

\* ------------------------------------------------------ log streamers
\* C21: for each container of the worker pod, init or main, clusterRunner
\* starts at most one log streaming goroutine, however many Running
\* events arrive.
C21_OneStreamerPerContainer ==
  \A c \in DOMAIN streamers : streamers[c] <= 1

\* ====================================================== streamPodLogs
\* lines the pod writes to its log in one run
MaxLines == 4

\* streamPodLogs up to its return: GetClient, the guard, *logging = true,
\* req.Stream(), MkdirAll, OpenFile and the go statement
StreamPodLogs ==
  /\ lpc = "start"
  /\ \/ /\ lpc' = "returned"
        /\ lret' = "GetClient failed"
        /\ UNCHANGED <<logging, gpc, podLogs>>
     \/ /\ logging = "true"
        /\ lpc' = "returned"
        /\ lret' = "nil"
        /\ UNCHANGED <<logging, gpc, podLogs>>
     \/ /\ logging = "nil"
        /\ lpc' = "panic"
        /\ UNCHANGED <<lret, logging, gpc, podLogs>>
     \/ /\ logging = "false"
        /\ logging' = "true"
        /\ lpc' = "returned"
        /\ \/ /\ lret' = "Stream failed"
              /\ UNCHANGED <<gpc, podLogs>>
           \/ /\ lret' \in {"failed to create logs directory", "failed to create log"}
              /\ podLogs' = "open"
              /\ UNCHANGED gpc
           \/ /\ lret' = "nil"
              /\ podLogs' = "open"
              /\ gpc' = "scan"
  /\ UNCHANGED <<unread, printed, logged, closed>>
  /\ UNCHANGED besideStream

\* scanner.Scan() returns true: print the line, write it to logf; a failed
\* write is only warned about
ScanLine ==
  /\ gpc = "scan"
  /\ unread > 0
  /\ unread' = unread - 1
  /\ printed' = printed + 1
  /\ \E ok \in BOOLEAN : logged' = IF ok THEN logged + 1 ELSE logged
  /\ UNCHANGED <<lpc, lret, logging, gpc, podLogs, closed>>
  /\ UNCHANGED besideStream

\* scanner.Scan() returns false: the stream is exhausted or cannot be read
ScanStops ==
  /\ gpc = "scan"
  /\ unread = 0
  /\ podLogs \in {"eof", "broken"}
  /\ gpc' = "err"
  /\ UNCHANGED <<lpc, lret, logging, podLogs, unread, printed, logged, closed>>
  /\ UNCHANGED besideStream

\* Scanner.Err(): nil when the scanner stopped at the end of the input
ScannerErr == IF podLogs = "broken" THEN "read error" ELSE "nil"

\* the test of scanner.Err() behind the inner loop: return and run the
\* deferred podLogs.Close() on io.EOF, otherwise start over with a new scanner
CheckErr ==
  /\ gpc = "err"
  /\ IF ScannerErr # "nil" /\ ScannerErr = "EOF"
     THEN /\ gpc' = "exited"
          /\ closed' = TRUE
     ELSE /\ gpc' = "scan"
          /\ UNCHANGED closed
  /\ UNCHANGED <<lpc, lret, logging, podLogs, unread, printed, logged>>
  /\ UNCHANGED besideStream

Streamer == ScanLine \/ ScanStops \/ CheckErr

\* ---- the pod behind the stream
WriteLine ==
  /\ podLogs = "open"
  /\ unread + printed < MaxLines
  /\ unread' = unread + 1
  /\ UNCHANGED <<lpc, lret, logging, gpc, podLogs, printed, logged, closed>>
  /\ UNCHANGED besideStream

EndOfStream ==
  /\ podLogs = "open"
  /\ podLogs' \in {"eof", "broken"}
  /\ UNCHANGED <<lpc, lret, logging, gpc, unread, printed, logged, closed>>
  /\ UNCHANGED besideStream

StreamNext ==
  \/ StreamPodLogs
  \/ ScanLine
  \/ ScanStops
  \/ CheckErr
  \/ WriteLine
  \/ EndOfStream

StreamInit ==
  /\ ExecIdle
  /\ PlanIdle
  /\ ClusterIdle
  /\ PodmanIdle
  /\ CopyIdle
  /\ lpc = "start"
  /\ lret = "pending"
  /\ logging \in {"nil", "false", "true"}
  /\ gpc = "none"
  /\ podLogs = "none"
  /\ unread = 0
  /\ printed = 0
  /\ logged = 0
  /\ closed = FALSE

\* the goroutine is scheduled as long as it can take a step
StreamSpec == StreamInit /\ [][StreamNext]_vars /\ WF_vars(Streamer)

\* C22: once the stream has reached its end, the goroutine reading it
\* eventually exits and has closed the stream.
C22_StreamerExitsOnEOF ==
  (gpc # "none" /\ podLogs = "eof") ~> (gpc = "exited" /\ closed)

C25_SuccessMeansAllMainsRan ==
  (HasReturned /\ ret = NilErr) => \A sc \in Mains : Calls(sc) = 1

\* C24: with ConcurrentExecution, once the main scripts are being launched
\* Execute eventually returns: the draining loop never waits for a value
\* that will not come.
C24_ConcurrentExecuteReturns ==
  (stage.ConcurrentExecution /\ pc = "launch") ~> HasReturned

\* Execute returned after draining the results of two goroutines
C24_Witness ==
  /\ HasReturned
  /\ stage.ConcurrentExecution
  /\ Cardinality({sc \in Mains : task[sc] = "done"}) = 2
  /\ x >= 1

\* ------------------------------------------------- podmanRunner: teardown
\* a goroutine is inside ender, between the removal of the worker and the
\* end of the cleanup of the ephemeral directory
MainInEnder == qpc = "cleanup"
WokenInEnder == wpc = "cleanup"

\* C26: ender is executed at most once in one run of podmanRunner, and
\* never by the returning goroutine and the signal goroutine at once.
C26_TeardownOnce ==
  /\ enders <= 1
  /\ ~(MainInEnder /\ WokenInEnder)
====
